---- MODULE Spec2Model ----
(***************************************************************************)
(* NextRouter/routingFlow: the rebalancing loop of src/main.rs and the     *)
(* bandwidth comparison of src/monitor.rs + src/prometheus.rs.             *)
(*                                                                         *)
(* Bandwidth values (f64 in the source) are small naturals, on which f64   *)
(* addition and comparison are exact.  Timestamps are u64 seconds.         *)
(***************************************************************************)
EXTENDS Integers, Sequences, FiniteSets, TLC

\* ------------------------------------------------------------------ bounds
MaxTicks == 2          \* iterations of the main loop that are explored
MaxTcpSamples == 2     \* samples in one tcp_bandwidth query result
MaxNetSamples == 2     \* samples in one network_ip_{rx,tx}_bps query result

\* --------------------------------------------------------------- constants
CooldownSecs == 30     \* main.rs:237, 309, 332
U64Modulus == 2^30     \* stands for 2^64 (timestamp: u64); TLC integers are 32 bit,
                       \* and every wrapped age stays far above CooldownSecs

\* ------------------------------------------------------------ input domains
IPs == {"10.0.0.1", "10.0.0.2"}
NicOrder == <<"eth0", "eth1", "eth2">>      \* interface names in String order
NicNames == {NicOrder[i] : i \in DOMAIN NicOrder}
WanNics == {"eth0", "eth1"}                 \* values of config.wan0 / config.wan1
ValueStrings == {"1", "2"}                  \* result.value.1 of a sample
ClockValues == {0, CooldownSecs, CooldownSecs + 1}

VARIABLES
    pc,               \* position of main's loop
    exit_reason,      \* why main returned / panicked ("none" while running)
    tick,             \* number of the current loop iteration
    switch_history,   \* Vec<SwitchRecord>
    status,           \* StatusResponse of this tick
    nic_stats,        \* HashMap<String, NicStats>
    network_results,  \* Vec<PrometheusResult> of the network query
    nics,             \* sorted interface names still to be visited
    now,              \* `now` read at line 226 for the current interface
    flow_queue,       \* the part of ip_rx_list[0..1] not yet iterated
    switch_calls,     \* GET /switch requests issued in this tick
    moved,            \* (ip, timestamp, tick) of every successful switch so far
    comparisons,      \* monitor.rs: Vec<BandwidthComparison>
    mon_in,           \* monitor.rs: the config, the tcp query result as received
                      \* (raw) and as returned by get_tcp_bandwidth_avg (tcp)
    mon_pc            \* monitor.rs: position of compare_bandwidth

vars == <<pc, exit_reason, tick, switch_history, status, nic_stats, network_results,
          nics, now, flow_queue, switch_calls, moved, comparisons, mon_in, mon_pc>>

mainVars == <<pc, exit_reason, tick, switch_history, status, nic_stats, network_results,
              nics, now, flow_queue, switch_calls, moved>>
monVars == <<comparisons, mon_in, mon_pc>>

\* ------------------------------------------------------------- pure helpers
\* str::parse::<f64>: Ok for a numeric string, Err otherwise
ParsesAsF64(s) == s \in {"0", "1", "2", "3"}
ParseF64(s) ==
    CASE s = "0" -> 0
      [] s = "1" -> 1
      [] s = "2" -> 2
      [] s = "3" -> 3

\* result.value.1.parse().unwrap_or(0.0)
ParseOrZero(s) == IF ParsesAsF64(s) THEN ParseF64(s) ELSE 0

\* u64 `a - b` without overflow checks
U64Sub(a, b) == (a - b) % U64Modulus

\* whether u64 `a - b` overflows (panics with overflow checks, wraps without)
SubOverflows(a, b) == a < b

NoStatus == [config |-> [wan0 |-> "eth0", wan1 |-> "eth0"], mappings |-> <<>>]
NicStatsDefault == [tcp_bandwidth |-> 0, tx_bps |-> 0, rx_bps |-> 0]

\* (mutant) the two uplinks are entered under each other's name
build_wan_to_nic_map_swapped(config) ==
    [w \in {"wan0", "wan1"} |-> IF w = "wan0" THEN config.wan1 ELSE config.wan0]

\* lines 85-90
build_wan_to_nic_map(config) ==
    [w \in {"wan0", "wan1"} |-> IF w = "wan0" THEN config.wan0 ELSE config.wan1]

\* (mutant) a flow on an uplink without interface is put on wan0's interface
build_ip_to_nic_map_default(st, w2n) ==
    [ip \in DOMAIN st.mappings |->
        IF st.mappings[ip] \in DOMAIN w2n THEN w2n[st.mappings[ip]] ELSE w2n["wan0"]]

\* lines 92-105
build_ip_to_nic_map(st, wan_to_nic) ==
    [ip \in {i \in DOMAIN st.mappings : st.mappings[i] \in DOMAIN wan_to_nic}
        |-> wan_to_nic[st.mappings[ip]]]

wan_to_nic == build_wan_to_nic_map(status.config)
ip_to_nic == build_ip_to_nic_map(status, wan_to_nic)

\* nic_stats.entry(k).or_default()
EntryOrDefault(stats, k) ==
    IF k \in DOMAIN stats THEN stats ELSE stats @@ (k :> NicStatsDefault)

\* lines 135-143: tcp_bandwidth += value, grouped by the interface label
RECURSIVE AddTcp(_, _)
AddTcp(stats, results) ==
    IF results = <<>> THEN stats
    ELSE LET r == Head(results)
             s == EntryOrDefault(stats, r.interface)
         IN AddTcp([s EXCEPT ![r.interface].tcp_bandwidth = @ + ParseOrZero(r.value)],
                   Tail(results))

\* lines 152-169: tx_bps / rx_bps summed per NIC through ip_to_nic
RECURSIVE AddNetwork(_, _, _)
AddNetwork(stats, results, i2n) ==
    IF results = <<>> THEN stats
    ELSE LET r == Head(results)
         IN IF r.ip \in DOMAIN i2n
            THEN LET nic == i2n[r.ip]
                     s == EntryOrDefault(stats, nic)
                     v == ParseOrZero(r.value)
                 IN AddNetwork(
                        IF r.name = "network_ip_tx_bps"
                        THEN [s EXCEPT ![nic].tx_bps = @ + v]
                        ELSE IF r.name = "network_ip_rx_bps"
                        THEN [s EXCEPT ![nic].rx_bps = @ + v]
                        ELSE s,
                        Tail(results), i2n)
            ELSE AddNetwork(stats, Tail(results), i2n)

\* (mutant) the interfaces are visited in descending order
SortedKeysDescending(stats) ==
    LET asc == SelectSeq(NicOrder, LAMBDA n : n \in DOMAIN stats)
    IN [i \in 1..Len(asc) |-> asc[Len(asc) + 1 - i]]

\* lines 174-175: nic_stats.keys() sorted
SortedKeys(stats) == SelectSeq(NicOrder, LAMBDA n : n \in DOMAIN stats)

\* lines 201-217: (ip, rx) of the rx samples mapped to `nic`, in result order
RECURSIVE RxOfNic(_, _, _)
RxOfNic(results, i2n, nic) ==
    IF results = <<>> THEN <<>>
    ELSE LET r == Head(results)
             rest == RxOfNic(Tail(results), i2n, nic)
         IN IF /\ r.name = "network_ip_rx_bps"
               /\ r.ip \in DOMAIN i2n
               /\ i2n[r.ip] = nic
            THEN <<[ip |-> r.ip, rx |-> ParseOrZero(r.value)]>> \o rest
            ELSE rest

\* lines 220-221: stable sort, descending by rx
InsertDesc(sorted, x) ==
    LET k == Cardinality({i \in DOMAIN sorted : sorted[i].rx >= x.rx})
    IN SubSeq(sorted, 1, k) \o <<x>> \o SubSeq(sorted, k + 1, Len(sorted))

RECURSIVE SortByRxDesc(_)
SortByRxDesc(list) ==
    IF list = <<>> THEN <<>>
    ELSE InsertDesc(SortByRxDesc(SubSeq(list, 1, Len(list) - 1)), list[Len(list)])

ip_rx_list(nic) == SortByRxDesc(RxOfNic(network_results, ip_to_nic, nic))

\* (mutant) the loop visits the whole list instead of its first element
CandidateSliceWholeList(list) == list

\* line 231: ip_rx_list[0..1] (panics on an empty list)
CandidateSlice(list) == SubSeq(list, 1, 1)
SliceInRange(list) == Len(list) >= 1

\* line 237: the comparison of one record
WithinCooldown(t, timestamp) == U64Sub(t, timestamp) <= CooldownSecs

\* lines 235-237: switch_history.iter().any(..)
recently_switched(history, ip, t) ==
    \E i \in DOMAIN history :
        history[i].ip = ip /\ WithinCooldown(t, history[i].timestamp)

\* lines 235-237: `any` evaluates `now - record.timestamp` for the records of `ip`
\* up to the first hit; one of these subtractions overflows
CheckOverflows(history, ip, t) ==
    \E i \in DOMAIN history :
        /\ history[i].ip = ip
        /\ SubOverflows(t, history[i].timestamp)
        /\ \A j \in 1..(i - 1) :
              ~(history[j].ip = ip /\ WithinCooldown(t, history[j].timestamp))

\* lines 248-257: max_by over the HashMap's (arbitrary) iteration order returns
\* any of the other interfaces of maximal tcp_bandwidth; without another
\* interface unwrap_or_else yields the current one
TargetNicChoices(stats, nic) ==
    LET others == DOMAIN stats \ {nic}
    IN IF others = {} THEN {nic}
       ELSE {n \in others :
               \A m \in others : stats[m].tcp_bandwidth <= stats[n].tcp_bandwidth}

\* (mutant) the fallback of a failed lookup is "wan1"
TargetWanFallbackWan1(w2n, target_nic) ==
    LET ws == {w \in DOMAIN w2n : w2n[w] = target_nic}
    IN IF ws = {} THEN {"wan1"} ELSE ws

\* lines 259-263: find over wan_to_nic's (arbitrary) iteration order, else "wan0"
TargetWanChoices(w2n, target_nic) ==
    LET ws == {w \in DOMAIN w2n : w2n[w] = target_nic}
    IN IF ws = {} THEN {"wan0"} ELSE ws

\* lines 304-314: the report's filter evaluates `now - record.timestamp` for the
\* records whose target_wan is backed by `nic`
ReportOverflows(history, w2n, nic, t) ==
    \E i \in DOMAIN history :
        /\ history[i].target_wan \in DOMAIN w2n
        /\ w2n[history[i].target_wan] = nic
        /\ SubOverflows(t, history[i].timestamp)

\* line 332: switch_history.retain(..)
Retain(history, t) ==
    SelectSeq(history, LAMBDA record : U64Sub(t, record.timestamp) <= CooldownSecs)

RetainOverflows(history, t) ==
    \E i \in DOMAIN history : SubOverflows(t, history[i].timestamp)

\* --------------------------------------------------------------- inputs
Configs == [wan0 : {"eth0"}, wan1 : WanNics]
\* status.mappings: both flows on wan0 / wan1, or the second flow on an uplink
\* that no interface backs, or the second flow without a mapping
Mappings ==
    [IPs -> {"wan0", "wan1"}]
        \cup {[ip \in IPs |-> IF ip = "10.0.0.1" THEN "wan0" ELSE "wan2"]}
        \cup {[ip \in {"10.0.0.1"} |-> "wan1"]}
StatusResponses == [config : Configs, mappings : Mappings]

TcpSample == [interface : NicNames, value : {"2"}]
NetSample ==
    [name : {"network_ip_rx_bps"}, ip : IPs, value : ValueStrings]
        \cup [name : {"network_ip_tx_bps"}, ip : IPs, value : {"1"}]

SeqsUpTo(S, n) == UNION {[1..k -> S] : k \in 0..n}

\* ------------------------------------------------------------------ Init
MonIdle == [tcp |-> <<>>, raw |-> <<>>, config |-> [wan0 |-> "eth0", wan1 |-> "eth0"]]

Init ==
    /\ pc = "fetch_status"
    /\ exit_reason = "none"
    /\ tick = 1
    /\ switch_history = <<>>
    /\ status = NoStatus
    /\ nic_stats = <<>>
    /\ network_results = <<>>
    /\ nics = <<>>
    /\ now = 0
    /\ flow_queue = <<>>
    /\ switch_calls = <<>>
    /\ moved = {}
    /\ comparisons = {}
    /\ mon_in = MonIdle
    /\ mon_pc = "unused"

\* main returns Err(..) or panics: the process ends and its memory is gone
Exit(reason) ==
    /\ pc' = "exited"
    /\ exit_reason' = reason
    /\ tick' = 0
    /\ switch_history' = <<>>
    /\ status' = NoStatus
    /\ nic_stats' = <<>>
    /\ network_results' = <<>>
    /\ nics' = <<>>
    /\ now' = 0
    /\ flow_queue' = <<>>
    /\ switch_calls' = <<>>
    /\ moved' = {}
    /\ UNCHANGED monVars

\* ---------------------------------------------------------------- actions
\* line 115, Ok
GetStatusMappings ==
    /\ pc = "fetch_status"
    /\ \E st \in StatusResponses : status' = st
    /\ pc' = "fetch_tcp"
    /\ UNCHANGED <<exit_reason, tick, switch_history, nic_stats, network_results,
                   nics, now, flow_queue, switch_calls, moved>>
    /\ UNCHANGED monVars

\* line 115, Err: `?` returns from main
GetStatusMappingsFails ==
    /\ pc = "fetch_status"
    /\ Exit("status_error")

\* lines 130-143, Ok
QueryTcp ==
    /\ pc = "fetch_tcp"
    /\ \E results \in SeqsUpTo(TcpSample, MaxTcpSamples) :
          nic_stats' = AddTcp(<<>>, results)
    /\ pc' = "fetch_network"
    /\ UNCHANGED <<exit_reason, tick, switch_history, status, network_results,
                   nics, now, flow_queue, switch_calls, moved>>
    /\ UNCHANGED monVars

\* line 130, Err
QueryTcpFails ==
    /\ pc = "fetch_tcp"
    /\ Exit("tcp_error")

\* lines 149-175, Ok
QueryNetwork ==
    /\ pc = "fetch_network"
    /\ \E results \in SeqsUpTo(NetSample, MaxNetSamples) :
          /\ network_results' = results
          /\ nic_stats' = AddNetwork(nic_stats, results, ip_to_nic)
          /\ nics' = SortedKeys(nic_stats')
    /\ pc' = "nic_loop"
    /\ UNCHANGED <<exit_reason, tick, switch_history, status,
                   now, flow_queue, switch_calls, moved>>
    /\ UNCHANGED monVars

\* line 149, Err
QueryNetworkFails ==
    /\ pc = "fetch_network"
    /\ Exit("network_error")

\* lines 177-231: the next interface; its rx list, `now`, and the slice
NicBegin ==
    /\ pc = "nic_loop"
    /\ nics # <<>>
    /\ LET list == ip_rx_list(Head(nics))
       IN IF SliceInRange(list)
          THEN /\ \E t \in ClockValues : now' = t
               /\ flow_queue' = CandidateSlice(list)
               /\ pc' = "flow_loop"
               /\ UNCHANGED <<exit_reason, tick, switch_history, status, nic_stats,
                              network_results, nics, switch_calls, moved>>
               /\ UNCHANGED monVars
          ELSE Exit("slice_panic")

\* lines 231-245: the next (ip, rx) of the slice was switched recently: continue
FlowSkip ==
    /\ pc = "flow_loop"
    /\ flow_queue # <<>>
    /\ recently_switched(switch_history, Head(flow_queue).ip, now)
    /\ \/ /\ CheckOverflows(switch_history, Head(flow_queue).ip, now)
          /\ Exit("overflow_panic")
       \/ /\ flow_queue' = Tail(flow_queue)
          /\ UNCHANGED <<pc, exit_reason, tick, switch_history, status, nic_stats,
                         network_results, nics, now, switch_calls, moved>>
          /\ UNCHANGED monVars

\* lines 231-271: the next (ip, rx) of the slice was not switched recently:
\* target_nic, target_wan, and the GET /switch request is sent
FlowSwitch ==
    /\ pc = "flow_loop"
    /\ flow_queue # <<>>
    /\ ~recently_switched(switch_history, Head(flow_queue).ip, now)
    /\ \/ /\ CheckOverflows(switch_history, Head(flow_queue).ip, now)
          /\ Exit("overflow_panic")
       \/ /\ \E target_nic \in TargetNicChoices(nic_stats, Head(nics)) :
             \E target_wan \in TargetWanChoices(wan_to_nic, target_nic) :
                switch_calls' = Append(switch_calls,
                    [nic |-> Head(nics), ip |-> Head(flow_queue).ip,
                     target_nic |-> target_nic, target_wan |-> target_wan,
                     result |-> "pending"])
          /\ pc' = "switching"
          /\ UNCHANGED <<exit_reason, tick, switch_history, status, nic_stats,
                         network_results, nics, now, flow_queue, moved>>
          /\ UNCHANGED monVars

\* lines 271-283: GET /switch answered with a success status
SwitchSucceeds ==
    /\ pc = "switching"
    /\ LET call == switch_calls[Len(switch_calls)]
       IN /\ switch_history' =
                Append(switch_history,
                       [ip |-> call.ip, target_wan |-> call.target_wan,
                        timestamp |-> now])
          /\ moved' = moved \cup {[ip |-> call.ip, timestamp |-> now, tick |-> tick]}
    /\ switch_calls' = [switch_calls EXCEPT ![Len(switch_calls)].result = "success"]
    /\ flow_queue' = Tail(flow_queue)
    /\ pc' = "flow_loop"
    /\ UNCHANGED <<exit_reason, tick, status, nic_stats, network_results, nics, now>>
    /\ UNCHANGED monVars

\* (mutant) a failed switch is recorded like a successful one
SwitchFailsButRecords ==
    /\ pc = "switching"
    /\ switch_history' =
          Append(switch_history,
                 [ip |-> switch_calls[Len(switch_calls)].ip,
                  target_wan |-> switch_calls[Len(switch_calls)].target_wan,
                  timestamp |-> now])
    /\ switch_calls' = [switch_calls EXCEPT ![Len(switch_calls)].result = "failure"]
    /\ flow_queue' = Tail(flow_queue)
    /\ pc' = "flow_loop"
    /\ UNCHANGED <<exit_reason, tick, status, nic_stats,
                   network_results, nics, now, moved>>
    /\ UNCHANGED monVars

\* lines 284-291: GET /switch answered with an error status, or not at all
SwitchFails ==
    /\ pc = "switching"
    /\ \E outcome \in {"error_status", "transport_error"} :
          switch_calls' = [switch_calls EXCEPT ![Len(switch_calls)].result = "failure"]
    /\ flow_queue' = Tail(flow_queue)
    /\ pc' = "flow_loop"
    /\ UNCHANGED <<exit_reason, tick, switch_history, status, nic_stats,
                   network_results, nics, now, moved>>
    /\ UNCHANGED monVars

\* lines 294-325: the history report of the interface, then the next interface
Report ==
    /\ pc = "flow_loop"
    /\ flow_queue = <<>>
    /\ \E t \in ClockValues :
          \/ /\ ReportOverflows(switch_history, wan_to_nic, Head(nics), t)
             /\ Exit("overflow_panic")
          \/ /\ nics' = Tail(nics)
             /\ now' = 0
             /\ pc' = "nic_loop"
             /\ UNCHANGED <<exit_reason, tick, switch_history, status, nic_stats,
                            network_results, flow_queue, switch_calls, moved>>
             /\ UNCHANGED monVars

\* lines 327-335: eviction at the end of the tick, then sleep
Cleanup ==
    /\ pc = "nic_loop"
    /\ nics = <<>>
    /\ \E t \in ClockValues :
          \/ /\ RetainOverflows(switch_history, t)
             /\ Exit("overflow_panic")
          \/ /\ switch_history' = Retain(switch_history, t)
             /\ pc' = "sleeping"
             /\ UNCHANGED <<exit_reason, tick, status, nic_stats, network_results,
                            nics, now, flow_queue, switch_calls, moved>>
             /\ UNCHANGED monVars

\* line 335 returns: the next iteration of `loop`
NextTick ==
    /\ pc = "sleeping"
    /\ tick < MaxTicks
    /\ tick' = tick + 1
    /\ pc' = "fetch_status"
    /\ switch_calls' = <<>>
    /\ status' = NoStatus
    /\ nic_stats' = <<>>
    /\ network_results' = <<>>
    /\ UNCHANGED <<exit_reason, switch_history, nics, now, flow_queue, moved>>
    /\ UNCHANGED monVars

Next ==
    \/ GetStatusMappings
    \/ GetStatusMappingsFails
    \/ QueryTcp
    \/ QueryTcpFails
    \/ QueryNetwork
    \/ QueryNetworkFails
    \/ NicBegin
    \/ FlowSkip
    \/ FlowSwitch
    \/ SwitchSucceeds
    \/ SwitchFails
    \/ Report
    \/ Cleanup
    \/ NextTick

Spec == Init /\ [][Next]_vars

\* ------------------------------------------- monitor.rs: compare_bandwidth
\* prometheus.rs 82-91: samples whose value does not parse are dropped
RECURSIVE get_tcp_bandwidth_avg(_)
get_tcp_bandwidth_avg(results) ==
    IF results = <<>> THEN <<>>
    ELSE LET r == Head(results)
             rest == get_tcp_bandwidth_avg(Tail(results))
         IN IF ParsesAsF64(r.value)
            THEN <<[interface |-> r.interface, value |-> ParseF64(r.value)]>> \o rest
            ELSE rest

\* monitor.rs 68-71: bandwidth_map.insert, the last sample of an interface wins
RECURSIVE BandwidthMap(_, _)
BandwidthMap(map, metrics) ==
    IF metrics = <<>> THEN map
    ELSE LET m == Head(metrics)
         IN BandwidthMap(
                [k \in DOMAIN map \cup {m.interface} |->
                    IF k = m.interface THEN m.value ELSE map[k]],
                Tail(metrics))

\* (mutant) an interface without an estimate is taken as unlimited
EstimatedMissingIsUnlimited(map, nic) == IF nic \in DOMAIN map THEN map[nic] ELSE 3

\* monitor.rs 85: bandwidth_map.get(&nic).copied().unwrap_or(0.0)
Estimated(map, nic) == IF nic \in DOMAIN map THEN map[nic] ELSE 0

\* (mutant) the comparison is not strict
ExceededOrEqual(actual_total, estimated) == actual_total >= estimated

\* monitor.rs 87
Exceeded(actual_total, estimated) == actual_total > estimated

\* monitor.rs 84-98: one BandwidthComparison per entry of network_totals
\* (a HashMap: the order of the Vec is arbitrary, so it is kept as a set)
Compare(map, network_totals) ==
    {[nic |-> nic,
      interface |-> nic,
      estimated_bandwidth |-> Estimated(map, nic),
      actual_rx |-> network_totals[nic].rx,
      actual_tx |-> network_totals[nic].tx,
      actual_total |-> network_totals[nic].rx + network_totals[nic].tx,
      exceeded |-> Exceeded(network_totals[nic].rx + network_totals[nic].tx,
                            Estimated(map, nic))] : nic \in DOMAIN network_totals}

MonTcpSample == [interface : WanNics, value : {"1", "2", "x"}]
TotalStrings == {"0", "1", "2"}

MonInit ==
    /\ pc = "unused"
    /\ exit_reason = "none"
    /\ tick = 0
    /\ switch_history = <<>>
    /\ status = NoStatus
    /\ nic_stats = <<>>
    /\ network_results = <<>>
    /\ nics = <<>>
    /\ now = 0
    /\ flow_queue = <<>>
    /\ switch_calls = <<>>
    /\ moved = {}
    /\ comparisons = {}
    /\ mon_in \in [tcp : {<<>>}, raw : {<<>>}, config : Configs]
    /\ mon_pc = "tcp_bandwidth"

\* monitor.rs 65, Ok
MonGetTcpBandwidthAvg ==
    /\ mon_pc = "tcp_bandwidth"
    /\ \E results \in SeqsUpTo(MonTcpSample, MaxTcpSamples) :
          mon_in' = [mon_in EXCEPT !.tcp = get_tcp_bandwidth_avg(results),
                                   !.raw = results]
    /\ mon_pc' = "network_totals"
    /\ UNCHANGED comparisons
    /\ UNCHANGED mainVars

\* monitor.rs 65, Err: `?` returns from compare_bandwidth
MonGetTcpBandwidthAvgFails ==
    /\ mon_pc = "tcp_bandwidth"
    /\ mon_pc' = "error"
    /\ UNCHANGED <<comparisons, mon_in>>
    /\ UNCHANGED mainVars

\* monitor.rs 74-100 with prometheus.rs 97-109, 132-145, Ok
MonCompare ==
    /\ mon_pc = "network_totals"
    /\ \E raw \in [{mon_in.config.wan0, mon_in.config.wan1} ->
                       [rx : TotalStrings, tx : TotalStrings]] :
          comparisons' =
              Compare(BandwidthMap(<<>>, mon_in.tcp),
                      [nic \in DOMAIN raw |-> [rx |-> ParseOrZero(raw[nic].rx),
                                              tx |-> ParseOrZero(raw[nic].tx)]])
    /\ mon_pc' = "done"
    /\ UNCHANGED mon_in
    /\ UNCHANGED mainVars

\* monitor.rs 79, Err
MonNetworkTotalsFails ==
    /\ mon_pc = "network_totals"
    /\ mon_pc' = "error"
    /\ UNCHANGED <<comparisons, mon_in>>
    /\ UNCHANGED mainVars

MonNext ==
    \/ MonGetTcpBandwidthAvg
    \/ MonGetTcpBandwidthAvgFails
    \/ MonCompare
    \/ MonNetworkTotalsFails

MonitorSpec == MonInit /\ [][MonNext]_vars

\* ------------------------------------------------------------------ claims
LastCall == switch_calls[Len(switch_calls)]

\* C1: a flow that was switched successfully in an earlier tick, at selection
\* time T, is not passed to the actuator again at a selection time `now` with
\* now - T <= 30.
C1_NoSecondMoveWithinCooldown ==
    pc = "switching" =>
        \A m \in moved :
            (m.ip = LastCall.ip /\ m.tick < tick) => ~(now - m.timestamp <= CooldownSecs)

\* C2: the flow passed to the actuator at selection time `now` has no record in
\* switch_history with now - movedAt <= 30.
C2_CandidateHasNoUnexpiredRecord ==
    pc = "switching" =>
        \A i \in DOMAIN switch_history :
            switch_history[i].ip = LastCall.ip =>
                ~(now - switch_history[i].timestamp <= CooldownSecs)

\* C3: the interface chosen as target differs from the interface that carries
\* the candidate flow.
C3_TargetIsNotCurrentInterface ==
    pc = "switching" => LastCall.target_nic # LastCall.nic

\* C4: the actuator is invoked for a flow only if the interface carrying it is
\* overloaded: its rx_bps + tx_bps is strictly greater than its tcp_bandwidth.
C4_ActuatorOnlyWhenOverloaded ==
    pc = "switching" =>
        nic_stats[LastCall.nic].rx_bps + nic_stats[LastCall.nic].tx_bps
            > nic_stats[LastCall.nic].tcp_bandwidth

\* C5: a failed actuator call creates no SwitchRecord and leaves switch_history
\* unchanged, so the call does not suppress its flow.
C5_FailedSwitchLeavesHistory ==
    [][(pc = "switching" /\ pc' = "flow_loop" /\ LastCall'.result = "failure") =>
          /\ switch_history' = switch_history
          /\ ~recently_switched(switch_history', LastCall'.ip, now')]_vars

C5_Witness ==
    /\ pc = "flow_loop"
    /\ switch_calls # <<>>
    /\ LastCall.result = "failure"
    /\ tick = 2
    /\ switch_history # <<>>

\* C6: a failed topology fetch does not terminate the process.
C6_TopologyFailureDoesNotTerminate ==
    exit_reason # "status_error"

\* C7: within one tick at most one actuator call is made, and at most one
\* SwitchRecord created, per physical interface.
C7_OneCallPerInterfacePerTick ==
    \A i, j \in DOMAIN switch_calls :
        switch_calls[i].nic = switch_calls[j].nic => i = j

C7_Witness ==
    /\ pc = "flow_loop"
    /\ flow_queue = <<>>
    /\ Len(ip_rx_list(Head(nics))) = 2
    /\ ip_rx_list(Head(nics))[1].ip # ip_rx_list(Head(nics))[2].ip
    /\ \E i \in DOMAIN switch_calls :
          switch_calls[i].nic = Head(nics) /\ switch_calls[i].result = "success"

\* C8: an interface is flagged exceeded iff rx + tx > estimated capacity; with
\* rx + tx equal to the capacity it is not exceeded.
C8_ExceededIsStrict ==
    \A c \in comparisons :
        /\ c.exceeded <=> (c.actual_rx + c.actual_tx > c.estimated_bandwidth)
        /\ (c.actual_rx + c.actual_tx = c.estimated_bandwidth) => ~c.exceeded

C8_Witness ==
    \E c \in comparisons :
        /\ c.estimated_bandwidth > 0
        /\ c.actual_rx + c.actual_tx = c.estimated_bandwidth
        /\ ~c.exceeded

\* C9: a SwitchRecord created at time T suppresses its flow at every query time
\* `now` with now - T <= 30, and the eviction of a tick removes exactly the
\* records with now - T > 30.
C9_CooldownWindow ==
    [][/\ (pc = "flow_loop" /\ pc' = "switching") =>
            \A m \in moved :
                m.ip = LastCall'.ip => ~(now - m.timestamp <= CooldownSecs)
       /\ (pc = "nic_loop" /\ pc' = "sleeping") =>
            \E t \in ClockValues :
                switch_history' =
                    SelectSeq(switch_history,
                              LAMBDA r : ~(t - r.timestamp > CooldownSecs))]_vars

\* C10: no candidate is produced for an interface only if every flow on it is
\* suppressed: when the highest-RX flow is suppressed and another flow is not,
\* that flow is selected.
C10_NextNonSuppressedFlowIsSelected ==
    (/\ pc = "flow_loop"
     /\ flow_queue = <<>>
     /\ \A i \in DOMAIN switch_calls : switch_calls[i].nic # Head(nics)) =>
        \A k \in DOMAIN ip_rx_list(Head(nics)) :
            recently_switched(switch_history, ip_rx_list(Head(nics))[k].ip, now)

\* C11: an interface with a NicStats entry but no rx sample of its own (an empty
\* ip_rx_list) is processed without error: the run goes on to the remaining
\* interfaces and to the eviction at the end of the tick.
C11_EmptyRxListIsNotAnError ==
    exit_reason # "slice_panic"

\* C12: a failed tcp_bandwidth query or a failed network query does not end the
\* tick or the process.
C12_MetricsFailureDoesNotAbort ==
    exit_reason \notin {"tcp_error", "network_error"}

\* C13: when the candidate's interface is the only key of nic_stats, no target
\* is produced and no GET /switch is sent for the candidate.
C13_NoCallInSingleInterfaceTopology ==
    pc = "switching" => DOMAIN nic_stats # {LastCall.nic}

\* C14: an interface for which the tcp_bandwidth query returned no sample, or
\* only samples whose value does not parse, has estimated_bandwidth 0 and is
\* flagged exceeded whenever actual_rx + actual_tx is positive.
C14_MissingCapacityIsZero ==
    \A c \in comparisons :
        (\A i \in DOMAIN mon_in.raw :
            mon_in.raw[i].interface = c.nic => ~ParsesAsF64(mon_in.raw[i].value)) =>
            /\ c.estimated_bandwidth = 0
            /\ (c.actual_rx + c.actual_tx > 0) => c.exceeded

C14_Witness ==
    \E c1, c2 \in comparisons :
        /\ \E i \in DOMAIN mon_in.raw : mon_in.raw[i].interface = c1.nic
        /\ \A i \in DOMAIN mon_in.raw :
              /\ mon_in.raw[i].interface = c1.nic => mon_in.raw[i].value = "x"
              /\ mon_in.raw[i].interface # c2.nic
        /\ c1.actual_rx + c1.actual_tx > 0 /\ c1.exceeded
        /\ c2.actual_rx + c2.actual_tx > 0 /\ c2.exceeded

\* C15: a SwitchRecord pushed in a tick is still in switch_history when that
\* tick's eviction has run, whatever time the tick took.
C15_RecordSurvivesItsTick ==
    pc = "sleeping" =>
        \A m \in moved :
            m.tick = tick =>
                \E i \in DOMAIN switch_history :
                    /\ switch_history[i].ip = m.ip
                    /\ switch_history[i].timestamp = m.timestamp

\* position of an interface name in String order
NicIndex(n) == CHOOSE i \in DOMAIN NicOrder : NicOrder[i] = n

\* C16: with at least one interface other than the current one in nic_stats,
\* the target is the other interface of highest tcp_bandwidth, and among several
\* of that bandwidth the one with the smallest name.
C16_TargetIsSmallestOfHighestCapacity ==
    pc = "switching" =>
        LET others == DOMAIN nic_stats \ {LastCall.nic}
            best == {n \in others :
                        \A m \in others :
                            nic_stats[m].tcp_bandwidth <= nic_stats[n].tcp_bandwidth}
        IN others # {} =>
              /\ LastCall.target_nic \in best
              /\ \A n \in best : NicIndex(LastCall.target_nic) <= NicIndex(n)

\* whether config.wan0 or config.wan1 names the interface
BacksAnUplink(nic) == status.config.wan0 = nic \/ status.config.wan1 = nic

\* C17: when no uplink of the tick's config is backed by the chosen target
\* interface the iteration does not fail: GET /switch is still sent for the
\* candidate, with wan0 as the uplink.
C17_UnbackedTargetFallsBackToWan0 ==
    [][(/\ pc = "flow_loop"
        /\ flow_queue # <<>>
        /\ ~recently_switched(switch_history, Head(flow_queue).ip, now)
        /\ pc' # "exited") =>
          /\ pc' = "switching"
          /\ LastCall'.ip = Head(flow_queue).ip
          /\ ~BacksAnUplink(LastCall'.target_nic) => LastCall'.target_wan = "wan0"]_vars

C17_Witness ==
    /\ pc = "switching"
    /\ ~BacksAnUplink(LastCall.target_nic)
    /\ LastCall.target_wan = "wan0"

\* C18: whenever GET /switch is sent and the chosen target interface backs an
\* uplink of the tick's config, the uplink in the request is one that the
\* target interface backs.
C18_UplinkIsBackedByTarget ==
    \A i \in DOMAIN switch_calls :
        BacksAnUplink(switch_calls[i].target_nic) =>
            \/ /\ switch_calls[i].target_wan = "wan0"
               /\ status.config.wan0 = switch_calls[i].target_nic
            \/ /\ switch_calls[i].target_wan = "wan1"
               /\ status.config.wan1 = switch_calls[i].target_nic

C18_Witness ==
    /\ pc = "switching"
    /\ LastCall.nic = "eth0"
    /\ LastCall.target_nic = "eth1"
    /\ LastCall.target_wan = "wan1"
    /\ nic_stats["eth0"].rx_bps + nic_stats["eth0"].tx_bps > nic_stats["eth0"].tcp_bandwidth

\* whether the flow resolves to the interface: status.mappings gives its uplink
\* and status.config gives that uplink's interface
ResolvesTo(ip, nic) ==
    /\ ip \in DOMAIN status.mappings
    /\ \/ status.mappings[ip] = "wan0" /\ status.config.wan0 = nic
       \/ status.mappings[ip] = "wan1" /\ status.config.wan1 = nic

\* sum of the samples of the metric whose flow resolves to the interface
RECURSIVE UsageSum(_, _, _)
UsageSum(results, name, nic) ==
    IF results = <<>> THEN 0
    ELSE (IF Head(results).name = name /\ ResolvesTo(Head(results).ip, nic)
          THEN ParseF64(Head(results).value) ELSE 0)
         + UsageSum(Tail(results), name, nic)

\* the (ip, rx) pairs of the rx samples whose flow resolves to the interface,
\* in the order of the query result
ResolvedRx(results, nic) ==
    LET sel == SelectSeq(results,
                         LAMBDA r : r.name = "network_ip_rx_bps" /\ ResolvesTo(r.ip, nic))
    IN [k \in DOMAIN sel |-> [ip |-> sel[k].ip, rx |-> ParseF64(sel[k].value)]]

\* C19: after the network query is processed, every interface's rx_bps and
\* tx_bps are the sums of the rx and tx samples whose flow resolves to it, the
\* list built for it at lines 201-217 holds exactly the rx samples whose flow
\* resolves to it, and a sample whose flow does not resolve adds to no sum, to
\* no list, and creates no nic_stats entry.
C19_AggregationByResolvedInterface ==
    [][(pc = "fetch_network" /\ pc' = "nic_loop") =>
          \A nic \in NicNames :
              /\ nic \in DOMAIN nic_stats' <=>
                    \/ nic \in DOMAIN nic_stats
                    \/ \E k \in DOMAIN network_results' :
                          ResolvesTo(network_results'[k].ip, nic)
              /\ nic \in DOMAIN nic_stats' =>
                    /\ nic_stats'[nic].rx_bps =
                          UsageSum(network_results', "network_ip_rx_bps", nic)
                    /\ nic_stats'[nic].tx_bps =
                          UsageSum(network_results', "network_ip_tx_bps", nic)
              /\ RxOfNic(network_results', ip_to_nic, nic) =
                    ResolvedRx(network_results', nic)]_vars

C19_Witness ==
    /\ pc = "nic_loop"
    /\ Len(nics) = Cardinality(DOMAIN nic_stats)
    /\ Len(network_results) = 2
    /\ network_results[1].ip \notin DOMAIN status.mappings
    /\ network_results[1].name = "network_ip_rx_bps"
    /\ ResolvesTo(network_results[2].ip, "eth1")
    /\ DOMAIN nic_stats = {"eth1"}
    /\ nic_stats["eth1"].rx_bps + nic_stats["eth1"].tx_bps > 0

\* position of a flow's address in String order
IpOrder == <<"10.0.0.1", "10.0.0.2">>
IpIndex(ip) == CHOOSE i \in DOMAIN IpOrder : IpOrder[i] = ip

\* C20: when several flows of the interface that are not suppressed share the
\* highest rx, the flow passed to GET /switch is the one with the smallest
\* address, whatever the order of the samples in the query result.
C20_TieBreakBySmallestFlow ==
    pc = "switching" =>
        LET list == ip_rx_list(LastCall.nic)
            free == {k \in DOMAIN list :
                        ~recently_switched(switch_history, list[k].ip, now)}
            top == {k \in free : \A j \in free : list[j].rx <= list[k].rx}
        IN \A k \in top : IpIndex(LastCall.ip) <= IpIndex(list[k].ip)

\* C21: the GET /switch requests of one tick are for interfaces in ascending
\* name order, and when a request is sent every earlier request of the tick has
\* been answered, its interface is no longer to be visited and, if it
\* succeeded, its SwitchRecord is in switch_history.
C21_AscendingInterfaceOrder ==
    /\ \A i, j \in DOMAIN switch_calls :
          i < j => NicIndex(switch_calls[i].nic) < NicIndex(switch_calls[j].nic)
    /\ pc = "switching" =>
          \A i \in 1..(Len(switch_calls) - 1) :
              /\ switch_calls[i].result # "pending"
              /\ switch_calls[i].nic \notin {nics[k] : k \in DOMAIN nics}
              /\ switch_calls[i].result = "success" =>
                    \E k \in DOMAIN switch_history :
                        /\ switch_history[k].ip = switch_calls[i].ip
                        /\ switch_history[k].target_wan = switch_calls[i].target_wan

C21_Witness ==
    /\ pc = "switching"
    /\ Len(switch_calls) = 2
    /\ switch_calls[1].result = "success"
    /\ switch_calls[1].nic = "eth0"
    /\ switch_calls[2].nic = "eth1"

\* C22: after the eviction at the end of a tick switch_history holds at most
\* one record per flow, and every record it holds has an age of at most 30 s at
\* the eviction's clock reading.
C22_OneFreshRecordPerFlowAtTickEnd ==
    [][(pc = "nic_loop" /\ pc' = "sleeping") =>
          /\ \A i, j \in DOMAIN switch_history' :
                switch_history'[i].ip = switch_history'[j].ip => i = j
          /\ \E t \in ClockValues :
                /\ switch_history' = Retain(switch_history, t)
                /\ \A i \in DOMAIN switch_history' :
                      t - switch_history'[i].timestamp <= CooldownSecs]_vars

\* C23: the uplink in a GET /switch request is never the uplink that
\* status.mappings assigns to the flow.
C23_TargetUplinkIsNotCurrentUplink ==
    pc = "switching" => LastCall.target_wan # status.mappings[LastCall.ip]

\* C24: every `now - record.timestamp` that is evaluated has
\* now >= record.timestamp: the suppression check does not underflow, and no
\* evaluation (suppression check, report, eviction) ends in an overflow panic.
C24_AgeNeverUnderflows ==
    /\ exit_reason # "overflow_panic"
    /\ (pc = "flow_loop" /\ flow_queue # <<>>) =>
          ~CheckOverflows(switch_history, Head(flow_queue).ip, now)

====
